---- MODULE Spec2Model ----
(***************************************************************************)
(* Model of the Sclera onboarding walkthrough (static/js/onboarding.js).   *)
(*                                                                         *)
(* The OnboardingManager object, the part of the page it touches (overlay, *)
(* callout, welcome modal, completion banner, highlight classes), the      *)
(* three localStorage flags and the event loop's timer queue are the       *)
(* state.  Every method is an operator from a state record to a state      *)
(* record, so that a method calling another method is operator             *)
(* application, exactly as in the source.                                  *)
(*                                                                         *)
(* Time is counted in slots of 100 ms.  setTimeout delays of 300, 500,     *)
(* 800 and 4000 ms are 3, 5, 8 and 40 slots; the 10 ms animation delay is  *)
(* 0 slots: such a timer runs before the slot ends.  Timers run in the     *)
(* order of their due times, and in insertion order when these are equal;  *)
(* of two timers due in one slot, the one set earlier with a delay that is *)
(* not longer runs first, and otherwise either may.  Input is handled when *)
(* it arrives, before or after the timers due in the slot.                 *)
(***************************************************************************)
EXTENDS Integers, Naturals, Sequences, FiniteSets, TLC

\* ----------------------------------------------------------------- bounds
\* The student table of getTutorialSteps has 20 entries; the model keeps
\* a table of NumSteps entries.
NumSteps == 3
\* user actions (clicks, events, settings calls, page loads) in a behaviour
MaxActions == 2
\* rectangle coordinates and sizes are drawn from grids of -1..MaxGrid and
\* 1..MaxGrid cells
MaxGrid == 2
\* exam_results documents created, and invocations of onResultCreated for
\* one of them (the trigger is delivered at least once)
MaxResults == 1
MaxDeliveries == 2

\* ------------------------------------------------------ program constants
UrlStartDelay == 5
WelcomeDelay == 8
StartDelay == 5
FadeDelay == 3
AnimateDelay == 0
\* the completion banner stays for 4000 ms
BannerDelay == 40
\* const spacing = 20 of positionCallout, in px
spacing == 20

VARIABLES
    currentStep,          \* this.currentStep
    isActive,             \* this.isActive
    tutorialSteps,        \* this.tutorialSteps: sequence of target ids
    overlay,              \* this.overlay: element id, 0 = null
    callout,              \* this.callout: element id, 0 = null
    hasCompletedTutorial, \* this.hasCompletedTutorial
    listening,            \* the 'startTutorial' window listener is registered
    overlays,             \* overlay elements attached to document.body
    overlayActive,        \* overlay elements carrying class 'active'
    callouts,             \* callout elements attached to document.body
    calloutView,          \* per callout element created: class, texts, button
    nOverlays,            \* overlay elements created since the page loaded
    bodyActive,           \* body carries class 'onboarding-active'
    highlighted,          \* targets carrying class 'onboarding-highlight'
    modal,                \* welcome modal: "none" | "attached" | "removed"
    modalActive,          \* welcome modal carries class 'active'
    nMessages,            \* completion banners created since the page loaded
    messages,             \* completion banners attached to document.body
    messageActive,        \* completion banners carrying class 'active'
    visited,              \* localStorage has sclera_visited = "true"
    completed,            \* localStorage has sclera_tutorial_completed = "true"
    skipped,              \* localStorage has sclera_tutorial_skipped = "true"
    timers,               \* pending setTimeout continuations, in the order set
    notifyCount,          \* POST /api/tutorial/complete requests fired
    welcomeCount,         \* times showWelcomeModal ran, over all page loads
    loads,                \* page loads after the first
    actions,              \* user actions so far
    nextCalls,            \* presses of a callout's Next button since the page loaded
    forcedRun,            \* the last startTutorial came from restartTutorial after a completion
    pendingFetch,         \* completion requests fired and not yet settled
    logged,               \* 'Could not save tutorial status' lines written to the console
    trace,                \* methods entered by the last step, in call order
    scrollY,              \* window.scrollY, in px
    scrollTo,             \* where the last scrollIntoView sends the page, in px
    accountType,          \* document.body.dataset.accountType
    catalogLen,           \* entries of the student table
    present,              \* targets document.querySelector finds
    geom,                 \* the page as loaded: rectangle and preferred side per target, callout rectangle, viewport, document height, scroll position
    users,                \* Firestore: users/{userId}
    summaries,            \* Firestore: classes/{classId}/class_summary/latest
    results,              \* Firestore: exam_results documents, in creation order
    invocations,          \* runs of onResultCreated started so far, per result document
    inflight,             \* runs of onResultCreated suspended at an await
    clock                 \* server time, one tick per committed batch

pageVars == <<accountType, catalogLen, present>>

layoutVars == <<geom>>

functionVars == <<users, summaries, results, invocations, inflight, clock>>

vars == <<currentStep, isActive, tutorialSteps, overlay, callout,
          hasCompletedTutorial, listening, overlays, overlayActive, callouts,
          calloutView, nOverlays, bodyActive, highlighted, modal, modalActive,
          nMessages, messages, messageActive, visited, completed, skipped,
          timers, notifyCount, welcomeCount, loads, actions, nextCalls,
          forcedRun, pendingFetch, logged, trace, scrollY, scrollTo,
          accountType, catalogLen, present, geom,
          users, summaries, results, invocations, inflight, clock>>

\* The state as one record, the form the method operators work on.
State ==
    [currentStep |-> currentStep, isActive |-> isActive,
     tutorialSteps |-> tutorialSteps, overlay |-> overlay, callout |-> callout,
     hasCompletedTutorial |-> hasCompletedTutorial, listening |-> listening,
     overlays |-> overlays, overlayActive |-> overlayActive,
     callouts |-> callouts, calloutView |-> calloutView,
     nOverlays |-> nOverlays, bodyActive |-> bodyActive,
     highlighted |-> highlighted, modal |-> modal, modalActive |-> modalActive,
     nMessages |-> nMessages, messages |-> messages,
     messageActive |-> messageActive,
     visited |-> visited, completed |-> completed,
     skipped |-> skipped, timers |-> timers, notifyCount |-> notifyCount,
     welcomeCount |-> welcomeCount, loads |-> loads, actions |-> actions,
     nextCalls |-> nextCalls,
     forcedRun |-> forcedRun,
     pendingFetch |-> pendingFetch,
     logged |-> logged,
     scrollY |-> scrollY, scrollTo |-> scrollTo,
     trace |-> <<>>]

Commit(s) ==
    /\ currentStep' = s.currentStep
    /\ isActive' = s.isActive
    /\ tutorialSteps' = s.tutorialSteps
    /\ overlay' = s.overlay
    /\ callout' = s.callout
    /\ hasCompletedTutorial' = s.hasCompletedTutorial
    /\ listening' = s.listening
    /\ overlays' = s.overlays
    /\ overlayActive' = s.overlayActive
    /\ callouts' = s.callouts
    /\ calloutView' = s.calloutView
    /\ nOverlays' = s.nOverlays
    /\ bodyActive' = s.bodyActive
    /\ highlighted' = s.highlighted
    /\ modal' = s.modal
    /\ modalActive' = s.modalActive
    /\ nMessages' = s.nMessages
    /\ messages' = s.messages
    /\ messageActive' = s.messageActive
    /\ visited' = s.visited
    /\ completed' = s.completed
    /\ skipped' = s.skipped
    /\ timers' = s.timers
    /\ notifyCount' = s.notifyCount
    /\ welcomeCount' = s.welcomeCount
    /\ loads' = s.loads
    /\ actions' = s.actions
    /\ nextCalls' = s.nextCalls
    /\ forcedRun' = s.forcedRun
    /\ pendingFetch' = s.pendingFetch
    /\ logged' = s.logged
    /\ trace' = s.trace
    /\ scrollY' = s.scrollY
    /\ scrollTo' = s.scrollTo
    /\ UNCHANGED pageVars
    /\ UNCHANGED layoutVars
    /\ UNCHANGED functionVars

\* ------------------------------------------------------------- primitives
\* setTimeout(callback, delay): the callback is named by kind, arg is the
\* value its closure captured.
setTimeout(s, kind, delay, arg) ==
    [s EXCEPT !.timers = Append(@, [kind |-> kind, rem |-> delay, arg |-> arg,
                                    delay |-> delay])]

\* entry of a method, recorded for the properties that speak of calls
enter(s, name, arg) == [s EXCEPT !.trace = Append(@, <<name, arg>>)]

\* a callout just created has no style.top, style.left or data-position
NotPlaced == [top2 |-> 0, left2 |-> 0, dataPosition |-> "none"]

\* the markup createCallout gives a new callout: "Step 1 of 0", not active
NewCalloutView ==
    [active |-> FALSE, cur |-> 1, total |-> 0, prevDisabled |-> FALSE,
     placed |-> NotPlaced]

\* ----------------------------------------------------------------- methods
checkTutorialStatus(s) == s.completed

getTutorialSteps ==
    IF accountType = "student" THEN [i \in 1..catalogLen |-> i] ELSE <<>>

createOverlay(s) ==
    LET id == s.nOverlays + 1
        s1 == [s EXCEPT !.overlay = id, !.overlays = @ \cup {id}, !.nOverlays = id]
    IN setTimeout(s1, "overlayActivate", AnimateDelay, 0)

createCallout(s) ==
    LET id == Len(s.calloutView) + 1
    IN [s EXCEPT !.callout = id, !.callouts = @ \cup {id},
                 !.calloutView = Append(@, NewCalloutView)]

\* variant: endTutorial also puts the index back to its initial value
endTutorial_resetIndex(s) ==
    LET s0 == enter(s, "endTutorial", 0)
        s1 == [s0 EXCEPT !.isActive = FALSE, !.bodyActive = FALSE,
                         !.highlighted = {}, !.currentStep = 0]
        s2 == IF s1.callout # 0
              THEN setTimeout([s1 EXCEPT !.calloutView[s1.callout].active = FALSE],
                              "calloutRemove", FadeDelay, 0)
              ELSE s1
        s3 == IF s2.overlay # 0
              THEN setTimeout([s2 EXCEPT !.overlayActive = @ \ {s2.overlay}],
                              "overlayRemove", FadeDelay, 0)
              ELSE s2
    IN s3

\* variant: closing the tutorial also records it as skipped
endTutorial_recordsSkip(s) ==
    LET s0 == enter(s, "endTutorial", 0)
        s1 == [s0 EXCEPT !.isActive = FALSE, !.bodyActive = FALSE,
                         !.highlighted = {}, !.skipped = TRUE]
        s2 == IF s1.callout # 0
              THEN setTimeout([s1 EXCEPT !.calloutView[s1.callout].active = FALSE],
                              "calloutRemove", FadeDelay, 0)
              ELSE s1
        s3 == IF s2.overlay # 0
              THEN setTimeout([s2 EXCEPT !.overlayActive = @ \ {s2.overlay}],
                              "overlayRemove", FadeDelay, 0)
              ELSE s2
    IN s3

endTutorial(s) ==
    LET s0 == enter(s, "endTutorial", 0)
        s1 == [s0 EXCEPT !.isActive = FALSE, !.bodyActive = FALSE,
                         !.highlighted = {}]
        s2 == IF s1.callout # 0
              THEN setTimeout([s1 EXCEPT !.calloutView[s1.callout].active = FALSE],
                              "calloutRemove", FadeDelay, 0)
              ELSE s1
        s3 == IF s2.overlay # 0
              THEN setTimeout([s2 EXCEPT !.overlayActive = @ \ {s2.overlay}],
                              "overlayRemove", FadeDelay, 0)
              ELSE s2
    IN s3

\* The banner is appended to the page; one timer animates it in, another
\* fades it out after 4000 ms.  Both closures hold the banner element.
showCompletionMessage(s) ==
    LET id == s.nMessages + 1
        s1 == [enter(s, "showCompletionMessage", 0)
                 EXCEPT !.nMessages = id, !.messages = @ \cup {id}]
        s2 == setTimeout(s1, "messageActivate", AnimateDelay, id)
    IN setTimeout(s2, "messageFade", BannerDelay, id)

\* fetch('/api/tutorial/complete', ...): the request is fired and left
\* pending; the trace entry records whether, at the call, the completed
\* flag was stored and the sequencer inactive
fetch(s) ==
    [enter(s, "fetch", IF s.completed /\ ~s.isActive THEN 1 ELSE 0)
        EXCEPT !.notifyCount = @ + 1, !.pendingFetch = @ + 1]

\* the promise of a pending request settles; .catch logs a rejection
settle(s, rejected) ==
    IF rejected
    THEN [enter(s, "catch", 0) EXCEPT !.pendingFetch = @ - 1,
                                      !.logged = @ + 1]
    ELSE [s EXCEPT !.pendingFetch = @ - 1]

\* variant: the completion request is sent only when the flag was not set
completeTutorial_notifyOnce(s) ==
    LET s0 == enter(s, "completeTutorial", 0)
        s1 == endTutorial(s0)
        s2 == [s1 EXCEPT !.completed = TRUE]
        s3 == IF s1.completed THEN s2 ELSE fetch(s2)
    IN showCompletionMessage(s3)

\* variant: the completion request is sent before the flag is stored
completeTutorial_fetchFirst(s) ==
    LET s0 == enter(s, "completeTutorial", 0)
        s1 == endTutorial(s0)
        s2 == fetch(s1)
        s3 == [s2 EXCEPT !.completed = TRUE]
    IN showCompletionMessage(s3)

completeTutorial(s) ==
    LET s0 == enter(s, "completeTutorial", 0)
        s1 == endTutorial(s0)
        s2 == [s1 EXCEPT !.completed = TRUE]
        s3 == fetch(s2)
    IN showCompletionMessage(s3)

\* variant: the bound of the comparison is length instead of length - 1
nextStep_offByOne(s) ==
    LET s0 == enter(s, "nextStep", 0)
    IN IF s0.currentStep < Len(s0.tutorialSteps)
       THEN setTimeout([s0 EXCEPT !.calloutView[s0.callout].active = FALSE],
                       "showNext", FadeDelay, 0)
       ELSE completeTutorial(s0)

nextStep(s) ==
    LET s0 == enter(s, "nextStep", 0)
    IN IF s0.currentStep < Len(s0.tutorialSteps) - 1
       THEN setTimeout([s0 EXCEPT !.calloutView[s0.callout].active = FALSE],
                       "showNext", FadeDelay, 0)
       ELSE completeTutorial(s0)

\* variant: the comparison is >= instead of >
previousStep_fromZero(s) ==
    LET s0 == enter(s, "previousStep", 0)
    IN IF s0.currentStep >= 0
       THEN setTimeout([s0 EXCEPT !.calloutView[s0.callout].active = FALSE],
                       "showPrev", FadeDelay, 0)
       ELSE s0

previousStep(s) ==
    LET s0 == enter(s, "previousStep", 0)
    IN IF s0.currentStep > 0
       THEN setTimeout([s0 EXCEPT !.calloutView[s0.callout].active = FALSE],
                       "showPrev", FadeDelay, 0)
       ELSE s0

\* positionCallout: the style.top and style.left it writes, as twice the px
\* value so that targetRect.width / 2 stays an integer, and data-position.
\* g holds targetRect, calloutRect, window.innerWidth/innerHeight, position.
\* variant: the right-hand clamp forgets the spacing
positionCallout_noRightSpacing(g) ==
    LET targetRect == g.targetRect
        calloutRect == g.calloutRect
        right == targetRect.left + targetRect.width
        bottom == targetRect.top + targetRect.height
        centredLeft == 2 * targetRect.left + targetRect.width - calloutRect.width
        centredTop == 2 * targetRect.top + targetRect.height - calloutRect.height
        top0 == CASE g.position = "top" ->
                       2 * (targetRect.top - calloutRect.height - spacing)
                  [] g.position = "bottom" -> 2 * (bottom + spacing)
                  [] g.position = "left" -> centredTop
                  [] g.position = "right" -> centredTop
                  [] OTHER -> 2 * (bottom + spacing)
        left0 == CASE g.position = "top" -> centredLeft
                   [] g.position = "bottom" -> centredLeft
                   [] g.position = "left" ->
                        2 * (targetRect.left - calloutRect.width - spacing)
                   [] g.position = "right" -> 2 * (right + spacing)
                   [] OTHER -> centredLeft
        left1 == IF left0 < 2 * spacing THEN 2 * spacing ELSE left0
        left2 == IF left1 + 2 * calloutRect.width > 2 * (g.viewportWidth - spacing)
                 THEN 2 * (g.viewportWidth - calloutRect.width)
                 ELSE left1
        top1 == IF top0 < 2 * spacing THEN 2 * spacing ELSE top0
        top2 == IF top1 + 2 * calloutRect.height > 2 * (g.viewportHeight - spacing)
                THEN 2 * (g.viewportHeight - calloutRect.height - spacing)
                ELSE top1
    IN [top2 |-> top2, left2 |-> left2,
        dataPosition |-> IF g.position \in {"top", "bottom", "left", "right"}
                         THEN g.position ELSE "bottom"]

positionCallout(g) ==
    LET targetRect == g.targetRect
        calloutRect == g.calloutRect
        right == targetRect.left + targetRect.width
        bottom == targetRect.top + targetRect.height
        centredLeft == 2 * targetRect.left + targetRect.width - calloutRect.width
        centredTop == 2 * targetRect.top + targetRect.height - calloutRect.height
        top0 == CASE g.position = "top" ->
                       2 * (targetRect.top - calloutRect.height - spacing)
                  [] g.position = "bottom" -> 2 * (bottom + spacing)
                  [] g.position = "left" -> centredTop
                  [] g.position = "right" -> centredTop
                  [] OTHER -> 2 * (bottom + spacing)
        left0 == CASE g.position = "top" -> centredLeft
                   [] g.position = "bottom" -> centredLeft
                   [] g.position = "left" ->
                        2 * (targetRect.left - calloutRect.width - spacing)
                   [] g.position = "right" -> 2 * (right + spacing)
                   [] OTHER -> centredLeft
        left1 == IF left0 < 2 * spacing THEN 2 * spacing ELSE left0
        left2 == IF left1 + 2 * calloutRect.width > 2 * (g.viewportWidth - spacing)
                 THEN 2 * (g.viewportWidth - calloutRect.width - spacing)
                 ELSE left1
        top1 == IF top0 < 2 * spacing THEN 2 * spacing ELSE top0
        top2 == IF top1 + 2 * calloutRect.height > 2 * (g.viewportHeight - spacing)
                THEN 2 * (g.viewportHeight - calloutRect.height - spacing)
                ELSE top1
    IN [top2 |-> top2, left2 |-> left2,
        dataPosition |-> IF g.position \in {"top", "bottom", "left", "right"}
                         THEN g.position ELSE "bottom"]

highlightElement(s, target) == [s EXCEPT !.highlighted = {target}]

\* what positionCallout reads for a step: the rectangle of the step's
\* target relative to the window, which moves up as the page scrolls down,
\* the rectangle of this.callout as measured at the call (0 x 0 for a
\* callout that is not in the document), the window size and step.position
layout(s, target) ==
    [targetRect |-> [geom.targetRect[target] EXCEPT
                        !.top = @ + geom.scrollY - s.scrollY],
     calloutRect |-> IF s.callout \in s.callouts
                     THEN geom.calloutRect
                     ELSE [width |-> 0, height |-> 0],
     viewportWidth |-> geom.viewportWidth,
     viewportHeight |-> geom.viewportHeight,
     position |-> geom.position[target]]

\* targetElement.scrollIntoView({behavior: 'smooth', block: 'center'}): the
\* page is sent to the scroll position that puts the middle of the target
\* in the middle of the window, as far as the document reaches; the
\* document is as wide as the window, so the page moves up and down only.
\* The smooth scroll itself runs after the call (action Scroll).
scrollIntoView(s, target) ==
    LET rect == geom.targetRect[target]
        centre2 == 2 * (rect.top + geom.scrollY) + rect.height
                      - geom.viewportHeight
        max2 == 2 * (geom.documentHeight - geom.viewportHeight)
        to2 == IF centre2 < 0 THEN 0
               ELSE IF centre2 > max2 THEN max2 ELSE centre2
    IN [s EXCEPT !.scrollTo = to2 \div 2]

\* variant: the total on display counts only the steps whose target exists
showStep_foundTotal(s, stepIndex) ==
    LET s0 == enter(s, "showStep", stepIndex)
    IN IF stepIndex < 0 \/ stepIndex >= Len(s0.tutorialSteps)
       THEN endTutorial(s0)
       ELSE LET s1 == [s0 EXCEPT !.currentStep = stepIndex]
                target == s1.tutorialSteps[stepIndex + 1]
                found == {i \in 1..Len(s1.tutorialSteps) : s1.tutorialSteps[i] \in present}
            IN IF target \notin present
               THEN nextStep(s1)
               ELSE LET s2 == [s1 EXCEPT !.calloutView[s1.callout].cur = stepIndex + 1,
                                         !.calloutView[s1.callout].total = Cardinality(found),
                                         !.calloutView[s1.callout].prevDisabled = (stepIndex = 0)]
                        s3 == highlightElement(enter(s2, "highlightElement", stepIndex), target)
                        s4 == [s3 EXCEPT !.calloutView[s3.callout].placed =
                                            positionCallout(layout(s3, target))]
                        s5 == scrollIntoView(s4, target)
                    IN [s5 EXCEPT !.calloutView[s1.callout].active = TRUE]

\* stepIndex is 0-based as in the source; tutorialSteps is a 1-based sequence
\* variant: a step whose target is missing is left without moving on
showStep_staysAtMissing(s, stepIndex) ==
    LET s0 == enter(s, "showStep", stepIndex)
    IN IF stepIndex < 0 \/ stepIndex >= Len(s0.tutorialSteps)
       THEN endTutorial(s0)
       ELSE LET s1 == [s0 EXCEPT !.currentStep = stepIndex]
                target == s1.tutorialSteps[stepIndex + 1]
            IN IF target \notin present
               THEN s1
               ELSE LET s2 == [s1 EXCEPT !.calloutView[s1.callout].cur = stepIndex + 1,
                                         !.calloutView[s1.callout].total = Len(s1.tutorialSteps),
                                         !.calloutView[s1.callout].prevDisabled = (stepIndex = 0)]
                        s3 == highlightElement(enter(s2, "highlightElement", stepIndex), target)
                        s4 == [s3 EXCEPT !.calloutView[s3.callout].placed =
                                            positionCallout(layout(s3, target))]
                        s5 == scrollIntoView(s4, target)
                    IN [s5 EXCEPT !.calloutView[s1.callout].active = TRUE]

showStep(s, stepIndex) ==
    LET s0 == enter(s, "showStep", stepIndex)
    IN IF stepIndex < 0 \/ stepIndex >= Len(s0.tutorialSteps)
       THEN endTutorial(s0)
       ELSE LET s1 == [s0 EXCEPT !.currentStep = stepIndex]
                target == s1.tutorialSteps[stepIndex + 1]
            IN IF target \notin present
               THEN nextStep(s1)
               ELSE LET s2 == [s1 EXCEPT !.calloutView[s1.callout].cur = stepIndex + 1,
                                         !.calloutView[s1.callout].total = Len(s1.tutorialSteps),
                                         !.calloutView[s1.callout].prevDisabled = (stepIndex = 0)]
                        s3 == highlightElement(enter(s2, "highlightElement", stepIndex), target)
                        s4 == [s3 EXCEPT !.calloutView[s3.callout].placed =
                                            positionCallout(layout(s3, target))]
                        s5 == scrollIntoView(s4, target)
                    IN [s5 EXCEPT !.calloutView[s1.callout].active = TRUE]

closeModal(s) ==
    IF s.modal = "attached"
    THEN setTimeout([s EXCEPT !.modalActive = FALSE], "modalRemove", FadeDelay, 0)
    ELSE s

startTutorial(s) ==
    LET s0 == closeModal(enter(s, "startTutorial", 0))
        s1 == [s0 EXCEPT !.tutorialSteps = getTutorialSteps,
                         !.currentStep = 0, !.isActive = TRUE,
                         !.bodyActive = TRUE, !.forcedRun = FALSE]
        s2 == createCallout(createOverlay(s1))
    IN setTimeout(s2, "showStep0", StartDelay, 0)

skipTutorial(s) ==
    LET s0 == closeModal(enter(s, "skipTutorial", 0))
    IN [s0 EXCEPT !.skipped = TRUE]

\* forcedRun records that this start follows a completion
restartTutorial(s) ==
    LET s0 == enter(s, "restartTutorial", 0)
        s1 == [s0 EXCEPT !.completed = FALSE, !.skipped = FALSE,
                         !.hasCompletedTutorial = FALSE]
    IN [startTutorial(s1) EXCEPT !.forcedRun = s.completed]

showWelcomeModal(s) ==
    LET s0 == enter(s, "showWelcomeModal", 0)
        s1 == [s0 EXCEPT !.modal = "attached", !.welcomeCount = @ + 1]
    IN setTimeout(s1, "modalActivate", AnimateDelay, 0)

\* init() that schedules the welcome modal without recording the visit
init_noVisited(s, urlStart) ==
    IF urlStart
    THEN setTimeout(s, "startTutorial", UrlStartDelay, 0)
    ELSE LET isFirstVisit == ~s.visited
             s1 == IF isFirstVisit /\ ~s.hasCompletedTutorial
                   THEN setTimeout(s, "showWelcomeModal", WelcomeDelay, 0)
                   ELSE s
         IN [s1 EXCEPT !.listening = TRUE]

\* init(): urlStart is urlParams.get('tutorial') === 'start'
init(s, urlStart) ==
    IF urlStart
    THEN setTimeout(s, "startTutorial", UrlStartDelay, 0)
    ELSE LET isFirstVisit == ~s.visited
             s1 == IF isFirstVisit /\ ~s.hasCompletedTutorial
                   THEN setTimeout([s EXCEPT !.visited = TRUE],
                                   "showWelcomeModal", WelcomeDelay, 0)
                   ELSE s
         IN [s1 EXCEPT !.listening = TRUE]

\* new OnboardingManager() on a freshly loaded page; st holds the
\* localStorage flags and the counters that outlive the page
construct(st, urlStart) ==
    LET s == [currentStep |-> 0, isActive |-> FALSE, tutorialSteps |-> <<>>,
              overlay |-> 0, callout |-> 0,
              hasCompletedTutorial |-> checkTutorialStatus(st),
              listening |-> FALSE,
              overlays |-> {}, overlayActive |-> {}, callouts |-> {},
              calloutView |-> <<>>, nOverlays |-> 0, bodyActive |-> FALSE,
              highlighted |-> {}, modal |-> "none", modalActive |-> FALSE,
              nMessages |-> 0, messages |-> {}, messageActive |-> {},
              visited |-> st.visited, completed |-> st.completed,
              skipped |-> st.skipped, timers |-> <<>>,
              notifyCount |-> st.notifyCount, welcomeCount |-> st.welcomeCount,
              loads |-> st.loads, actions |-> st.actions,
              nextCalls |-> 0, forcedRun |-> FALSE,
              pendingFetch |-> 0, logged |-> 0,
              scrollY |-> geom.scrollY, scrollTo |-> geom.scrollY,
              trace |-> <<<<"constructor", 0>>>>]
    IN init(s, urlStart)

\* ------------------------------------------------------------- event loop
\* the callback of a pending timer
runTimer(s, t) ==
    CASE t.kind = "startTutorial"    -> startTutorial(s)
      [] t.kind = "showWelcomeModal" -> showWelcomeModal(s)
      [] t.kind = "modalActivate"    -> [s EXCEPT !.modalActive = TRUE]
      [] t.kind = "modalRemove"      -> [s EXCEPT !.modal = "removed"]
      [] t.kind = "overlayActivate"  -> [s EXCEPT !.overlayActive = @ \cup {s.overlay}]
      [] t.kind = "showStep0"        -> showStep(s, 0)
      [] t.kind = "showNext"         -> showStep(s, s.currentStep + 1)
      [] t.kind = "showPrev"         -> showStep(s, s.currentStep - 1)
      [] t.kind = "calloutRemove"    -> [s EXCEPT !.callouts = @ \ {s.callout}]
      [] t.kind = "messageActivate"  -> [s EXCEPT !.messageActive = @ \cup {t.arg}]
      [] t.kind = "messageFade"      ->
            setTimeout([s EXCEPT !.messageActive = @ \ {t.arg}],
                       "messageRemove", FadeDelay, t.arg)
      [] t.kind = "messageRemove"    -> [s EXCEPT !.messages = @ \ {t.arg}]
      [] OTHER                       -> [s EXCEPT !.overlays = @ \ {s.overlay}]

RemoveAt(seq, i) == SubSeq(seq, 1, i - 1) \o SubSeq(seq, i + 1, Len(seq))

Due == {i \in 1..Len(timers) : timers[i].rem = 0}

\* the due timers that may run next: a timer waits for every timer set
\* before it with a delay that is not longer, whose due time is not later
Runnable ==
    {i \in Due : \A j \in Due : j < i => timers[j].delay > timers[i].delay}

\* ------------------------------------------------------------------ actions
\* The event loop runs the callback of a due timer.
Fire ==
    \E i \in Runnable :
        LET s == [State EXCEPT !.timers = RemoveAt(@, i)]
        IN Commit(runTimer(s, timers[i]))

\* The slot ends; no timer is due.
Tick ==
    /\ timers # <<>>
    /\ Due = {}
    /\ Commit([State EXCEPT !.timers = [i \in 1..Len(timers) |->
                                          [timers[i] EXCEPT !.rem = @ - 1]],
                            !.trace = <<<<"tick", 0>>>>])

\* the state a user action starts from: one more action is counted
User == [State EXCEPT !.actions = @ + 1]

\* input is handled when it arrives, whatever timers are pending or due
CanAct == actions < MaxActions

\* "Start Tutorial" button of the welcome modal
ClickStart ==
    /\ CanAct /\ modal = "attached"
    /\ Commit(startTutorial(User))

\* "Skip for now" button of the welcome modal
ClickSkip ==
    /\ CanAct /\ modal = "attached"
    /\ Commit(skipTutorial(User))

\* a 'startTutorial' event dispatched on window
StartEvent ==
    /\ CanAct /\ listening
    /\ Commit(startTutorial(User))

\* restartTutorial(), called from the settings page
Restart ==
    /\ CanAct
    /\ Commit(restartTutorial(User))

\* "Next"/"Finish" button of a callout on the page
ClickNext ==
    /\ CanAct /\ callouts # {}
    /\ Commit(nextStep([User EXCEPT !.nextCalls = @ + 1]))

\* "Previous" button of a callout on the page, unless disabled
ClickPrevious ==
    /\ CanAct
    /\ \E c \in callouts : ~calloutView[c].prevDisabled
    /\ Commit(previousStep(User))

\* close button of a callout on the page
ClickClose ==
    /\ CanAct /\ callouts # {}
    /\ Commit(endTutorial(User))

\* The page is loaded again: the document and its timers are gone, the
\* localStorage flags stay.
PageLoad ==
    /\ CanAct
    /\ \E urlStart \in BOOLEAN :
          Commit(construct([User EXCEPT !.loads = @ + 1], urlStart))

\* the server answers a completion request, or the request fails
FetchSettle ==
    /\ pendingFetch > 0
    /\ \E rejected \in BOOLEAN : Commit(settle(State, rejected))

\* the manager, the page and the flags are as in record s
Loaded(s) ==
    /\ currentStep = s.currentStep
    /\ isActive = s.isActive
    /\ tutorialSteps = s.tutorialSteps
    /\ overlay = s.overlay
    /\ callout = s.callout
    /\ hasCompletedTutorial = s.hasCompletedTutorial
    /\ listening = s.listening
    /\ overlays = s.overlays
    /\ overlayActive = s.overlayActive
    /\ callouts = s.callouts
    /\ calloutView = s.calloutView
    /\ nOverlays = s.nOverlays
    /\ bodyActive = s.bodyActive
    /\ highlighted = s.highlighted
    /\ modal = s.modal
    /\ modalActive = s.modalActive
    /\ nMessages = s.nMessages
    /\ messages = s.messages
    /\ messageActive = s.messageActive
    /\ visited = s.visited
    /\ completed = s.completed
    /\ skipped = s.skipped
    /\ timers = s.timers
    /\ notifyCount = s.notifyCount
    /\ welcomeCount = s.welcomeCount
    /\ loads = s.loads
    /\ actions = s.actions
    /\ nextCalls = s.nextCalls
    /\ forcedRun = s.forcedRun
    /\ pendingFetch = s.pendingFetch
    /\ logged = s.logged
    /\ trace = s.trace
    /\ scrollY = s.scrollY
    /\ scrollTo = s.scrollTo

\* the flags and counters before the first page load
Fresh == [visited |-> FALSE, completed |-> FALSE, skipped |-> FALSE,
          notifyCount |-> 0, welcomeCount |-> 0, loads |-> 0, actions |-> 0]

\* ------------------------------------------------- the result aggregator
UserIds == {"u1", "u2"}
ClassIds == {"c1", "c2"}
Percentages == {0, 75}

\* a class summary document that has never been written
NoSummary ==
    [exists |-> FALSE, total_assessments |-> 0, total_score_sum |-> 0,
     last_updated |-> 0]

\* a users/{userId} document that does not exist
NoUser == [exists |-> FALSE, hasClassIds |-> FALSE, class_ids |-> <<>>]

\* users/{userId}: missing, without class_ids, or with an array of class
\* ids; nothing keeps an id from being listed twice
UserDocs ==
    {NoUser,
     [exists |-> TRUE, hasClassIds |-> FALSE, class_ids |-> <<>>]}
    \cup {[exists |-> TRUE, hasClassIds |-> TRUE, class_ids |-> ids] :
             ids \in {<<>>, <<"c1">>, <<"c2">>, <<"c1", "c2">>, <<"c2", "c1">>,
                      <<"c1", "c1">>}}

\* exam_results documents: the owner and the percentage field, if any
ResultDocs ==
    {[userId |-> u, hasPercentage |-> FALSE, percentage |-> 0] : u \in UserIds}
    \cup [userId : UserIds, hasPercentage : {TRUE}, percentage : Percentages]

\* result.percentage || 0
PercentageOrZero(result) ==
    IF result.hasPercentage THEN result.percentage ELSE 0

\* batch.set(summaryRef, {increment(1), increment(p), serverTimestamp()},
\* {merge: true}) on one summary document, committed at time now
setMerge(doc, p, now) ==
    [exists |-> TRUE,
     total_assessments |-> doc.total_assessments + 1,
     total_score_sum |-> doc.total_score_sum + p,
     last_updated |-> now]

RECURSIVE batchSets(_, _, _, _)
\* the loop over classIds: one batch.set per entry of the array, applied
\* by the commit in the order they were added
batchSets(summ, classIds, p, now) ==
    IF classIds = <<>>
    THEN summ
    ELSE batchSets([summ EXCEPT ![Head(classIds)] = setMerge(@, p, now)],
                   Tail(classIds), p, now)

\* onResultCreated: db holds users, summaries and the server clock
onResultCreated(db, result) ==
    LET userSnap == db.users[result.userId]
        classIds == IF userSnap.hasClassIds THEN userSnap.class_ids ELSE <<>>
    IN IF ~userSnap.exists
       THEN db
       ELSE IF Len(classIds) = 0
       THEN db
       ELSE [db EXCEPT
               !.clock = @ + 1,
               !.summaries = batchSets(@, classIds, PercentageOrZero(result),
                                       db.clock + 1)]

Database == [users |-> users, summaries |-> summaries, clock |-> clock]

\* the sequencer and the placement models run without the database
NoDatabase ==
    /\ users = [u \in UserIds |-> NoUser]
    /\ summaries = [c \in ClassIds |-> NoSummary]
    /\ results = <<>>
    /\ invocations = <<>>
    /\ inflight = {}
    /\ clock = 0

\* the position fields of the 20 entries of the student table
stepPositions ==
    <<"bottom", "bottom", "bottom", "bottom", "right", "left", "top", "top",
      "bottom", "bottom", "bottom", "bottom", "bottom", "bottom", "bottom",
      "bottom", "bottom", "bottom", "bottom", "bottom">>

\* the sequencer model keeps one layout: the targets side by side, each
\* taller than the one before, the preferred sides those of the first
\* entries of the table, on a page that fits its window and so cannot
\* scroll
DefaultGeometry ==
    [targetRect |-> [t \in 1..NumSteps |->
                       [left |-> 20 * (t - 1), top |-> 0,
                        width |-> 15, height |-> 15 * t]],
     calloutRect |-> [width |-> 15, height |-> 15],
     viewportWidth |-> 120, viewportHeight |-> 120,
     documentHeight |-> 120, scrollY |-> 0,
     position |-> [t \in 1..NumSteps |-> stepPositions[t]]]

\* the targets a page holds: those of the first k steps, or all but one
Pages ==
    {1..k : k \in 0..NumSteps}
    \cup {(1..NumSteps) \ {m} : m \in 1..NumSteps}

Init ==
    /\ accountType \in {"student", "teacher"}
    /\ catalogLen = NumSteps
    /\ present \in Pages
    \* the student table is not consulted for another account type: one
    \* page stands for all of them
    /\ accountType = "teacher" => present = 1..catalogLen
    /\ geom = DefaultGeometry
    /\ \E urlStart \in BOOLEAN : Loaded(construct(Fresh, urlStart))
    /\ NoDatabase

Next ==
    \/ Fire
    \/ Tick
    \/ ClickStart
    \/ ClickSkip
    \/ StartEvent
    \/ Restart
    \/ ClickNext
    \/ ClickPrevious
    \/ ClickClose
    \/ PageLoad

Spec == Init /\ [][Next]_vars

\* ------------------------------------------------- one run, unhurried user
\* The tutorial is started once and Next is pressed only while the run is
\* active and no step is waiting to be shown.
NoPendingShow ==
    \A i \in 1..Len(timers) :
        timers[i].kind \notin {"startTutorial", "showStep0", "showNext", "showPrev"}

\* the welcome modal's Start button or a 'startTutorial' event
OrderlyStart ==
    /\ nOverlays = 0 /\ NoPendingShow /\ Due = {}
    /\ (modal = "attached" \/ listening)
    /\ Commit(startTutorial(User))

OrderlyClickNext ==
    /\ isActive /\ callouts # {} /\ Due = {} /\ NoPendingShow
    /\ Commit(nextStep([User EXCEPT !.nextCalls = @ + 1]))

NextOrderly ==
    \/ Fire
    \/ Tick
    \/ OrderlyStart
    \/ OrderlyClickNext

SpecOrderly == Init /\ [][NextOrderly]_vars

\* the event loop runs every callback that is due, and time passes
SpecOrderlyFair == SpecOrderly /\ WF_vars(Fire) /\ WF_vars(Tick)

\* ---------------------------------------------------- callout placement
\* px grids: coordinates in cells of 20, element sizes in cells of 15 (odd
\* sizes make the halves fractional), target heights in cells of 10 (the
\* middle of the target is then a whole number of px from the middle of
\* the window), viewport sizes in cells of 40
Coords == {20 * k : k \in (-1)..MaxGrid}
Sizes == {15 * k : k \in 1..MaxGrid}
Heights == {10 * k : k \in 1..MaxGrid}
Views == {40 * k : k \in 1..MaxGrid}
Positions == {"top", "bottom", "left", "right", "center"}
\* px of document below the window and the target of the page as loaded
Extents == {0, 120}

\* the scroll position of a page loaded with its target at rectangle rect:
\* a target above the window lies at the top of the document
LoadedScroll(rect) == IF rect.top < 0 THEN 0 - rect.top ELSE 0

\* the document reaches down to the lower edge of the window or of the
\* target, and extent px further
DocumentHeight(rect, viewportHeight, extent) ==
    LET windowEnd == LoadedScroll(rect) + viewportHeight
        targetEnd == LoadedScroll(rect) + rect.top + rect.height
    IN (IF targetEnd > windowEnd THEN targetEnd ELSE windowEnd) + extent

\* pages with one target
Geometries ==
    {[targetRect |-> <<rect>>, calloutRect |-> calloutRect,
      viewportWidth |-> vw, viewportHeight |-> vh,
      documentHeight |-> DocumentHeight(rect, vh, extent),
      scrollY |-> LoadedScroll(rect),
      position |-> <<position>>] :
        rect \in [left : Coords, top : Coords, width : Sizes, height : Heights],
        calloutRect \in [width : Sizes, height : Sizes],
        vw \in Views, vh \in Views, extent \in Extents,
        position \in Positions}

\* a student page with a one-step table, loaded with ?tutorial=start
InitPosition ==
    /\ accountType = "student" /\ catalogLen = 1 /\ present = {1}
    /\ geom \in Geometries
    /\ Loaded(construct(Fresh, TRUE))
    /\ NoDatabase

\* the smooth scroll a scrollIntoView started comes to rest
Scroll ==
    /\ scrollTo # scrollY
    /\ Commit([State EXCEPT !.scrollY = scrollTo,
                            !.trace = <<<<"scroll", 0>>>>])

\* window.onboardingManager.restartTutorial() on the page at rest after
\* its scroll
RestartScrolled ==
    /\ actions = 0 /\ timers = <<>>
    /\ scrollY # geom.scrollY /\ scrollTo = scrollY
    /\ Commit(restartTutorial(User))

\* the tutorial runs by its timers up to the first step, which showStep
\* places; the page scrolls to the target, and a tutorial started again
\* places the callout on the scrolled page
NextPosition ==
    \/ Fire
    \/ Tick
    \/ Scroll
    \/ RestartScrolled

\* ------------------------------------------------ completion requests
\* Spec leaves every completion request pending; here the requests are
\* answered or rejected as well, in runs driven by starts, Next presses
\* and page loads.
NextNotify ==
    \/ Fire
    \/ Tick
    \/ StartEvent
    \/ ClickNext
    \/ PageLoad
    \/ FetchSettle

SpecNotify == Init /\ [][NextNotify]_vars

SpecPosition == InitPosition /\ [][NextPosition]_vars

\* ------------------------------------------- result aggregator behaviours
InitAggregate ==
    /\ accountType = "student" /\ catalogLen = 1 /\ present = {1}
    /\ geom = DefaultGeometry
    /\ Loaded(construct(Fresh, FALSE))
    /\ users \in [UserIds -> UserDocs]
    /\ summaries = [c \in ClassIds |-> NoSummary]
    /\ results = <<>>
    /\ invocations = <<>>
    /\ inflight = {}
    /\ clock = 0

browserVars ==
    <<currentStep, isActive, tutorialSteps, overlay, callout,
      hasCompletedTutorial, listening, overlays, overlayActive, callouts,
      calloutView, nOverlays, bodyActive, highlighted, modal, modalActive,
      nMessages, messages, messageActive, visited, completed, skipped,
      timers, notifyCount, welcomeCount, loads, actions, nextCalls, forcedRun, pendingFetch,
      logged, trace, scrollY, scrollTo, accountType, catalogLen, present, geom>>

\* a document is created under users/{userId}/exam_results
CreateResult ==
    /\ Len(results) < MaxResults
    /\ \E result \in ResultDocs :
          /\ results' = Append(results, result)
          /\ invocations' = Append(invocations, 0)
    /\ UNCHANGED <<users, summaries, inflight, clock>>
    /\ UNCHANGED browserVars

\* the database an invocation works on: the user document as it was read,
\* the summaries and the clock as they are
DatabaseOf(h) ==
    [Database EXCEPT !.users[results[h.r].userId] = h.userSnap]

\* the onCreate trigger starts onResultCreated for result r, for the first
\* time or again; the handler asks for users/{userId} and is suspended
Deliver ==
    \E r \in DOMAIN results :
       /\ invocations[r] < MaxDeliveries
       /\ invocations' = [invocations EXCEPT ![r] = @ + 1]
       /\ inflight' = inflight \cup {[r |-> r, n |-> invocations[r] + 1,
                                      stage |-> "get", userSnap |-> NoUser]}
       /\ UNCHANGED <<users, summaries, results, clock>>
       /\ UNCHANGED browserVars

\* the user document arrives: the handler returns without a batch, or
\* builds the batch, hands it to commit and is suspended again
UserRead ==
    \E h \in inflight :
       /\ h.stage = "get"
       /\ LET h1 == [h EXCEPT !.stage = "commit",
                              !.userSnap = users[results[h.r].userId]]
          IN inflight' =
                IF onResultCreated(DatabaseOf(h1), results[h.r]) = DatabaseOf(h1)
                THEN inflight \ {h}
                ELSE (inflight \ {h}) \cup {h1}
       /\ UNCHANGED <<users, summaries, results, invocations, clock>>
       /\ UNCHANGED browserVars

\* variant: the batch of an invocation is dropped when an invocation for
\* the same result has run to its end before
BatchCommit_deduplicated ==
    \E h \in inflight :
       /\ h.stage = "commit"
       /\ LET handled == invocations[h.r]
                           - Cardinality({g \in inflight : g.r = h.r}) > 0
              db == IF handled
                    THEN Database
                    ELSE onResultCreated(DatabaseOf(h), results[h.r])
          IN /\ summaries' = db.summaries
             /\ clock' = db.clock
       /\ inflight' = inflight \ {h}
       /\ UNCHANGED <<users, results, invocations>>
       /\ UNCHANGED browserVars

\* the store applies the batch of a suspended invocation
BatchCommit ==
    \E h \in inflight :
       /\ h.stage = "commit"
       /\ LET db == onResultCreated(DatabaseOf(h), results[h.r])
          IN /\ summaries' = db.summaries
             /\ clock' = db.clock
       /\ inflight' = inflight \ {h}
       /\ UNCHANGED <<users, results, invocations>>
       /\ UNCHANGED browserVars

NextAggregate ==
    \/ CreateResult
    \/ Deliver
    \/ UserRead
    \/ BatchCommit

SpecAggregate == InitAggregate /\ [][NextAggregate]_vars

\* ------------------------------------------- restart after a completion
\* One start by event, Next pressed once, and restartTutorial called once
\* the completed flag is set.
RestartStart ==
    /\ listening /\ nOverlays = 0 /\ Due = {}
    /\ Commit(startTutorial(User))

RestartClickNext ==
    /\ callouts # {} /\ nextCalls = 0 /\ Due = {}
    /\ Commit(nextStep([User EXCEPT !.nextCalls = @ + 1]))

RestartAfterCompletion ==
    /\ completed /\ nOverlays = 1 /\ Due = {}
    /\ Commit(restartTutorial(User))

NextRestart ==
    \/ Fire
    \/ Tick
    \/ RestartStart
    \/ RestartClickNext
    \/ RestartAfterCompletion

SpecRestart == Init /\ [][NextRestart]_vars

\* --------------------------------------------------------------- helpers
\* the last step entered method name
Called(name) == \E i \in 1..Len(trace) : trace[i][1] = name

\* the last step entered showStep with this index
Shown(i) == \E k \in 1..Len(trace) : trace[k] = <<"showStep", i>>

\* the last step was a call of this method from outside
Entered(name) == trace # <<>> /\ trace[1][1] = name

AllTargetsPresent == accountType = "student" /\ present = 1..catalogLen

TypeOK ==
    /\ currentStep \in 0..NumSteps
    /\ isActive \in BOOLEAN
    /\ overlay \in 0..nOverlays
    /\ callout \in 0..Len(calloutView)
    /\ scrollY \in 0..(geom.documentHeight - geom.viewportHeight)
    /\ scrollTo \in 0..(geom.documentHeight - geom.viewportHeight)

\* what a method can change besides the record of the call itself
observable == <<currentStep, isActive, tutorialSteps, overlay, callout,
                hasCompletedTutorial, listening, overlays, overlayActive,
                callouts, calloutView, nOverlays, bodyActive, highlighted,
                modal, modalActive, nMessages, visited, completed, skipped,
                timers, notifyCount, welcomeCount>>

\* ------------------------------------------------------------------ claims

\* C1: whenever isActive is true, 0 <= currentStep < tutorialSteps.length,
\* also right after startTutorial with the empty catalog of a non-student
\* account.
C1_ActiveIndexInRange ==
    isActive => (0 <= currentStep /\ currentStep < Len(tutorialSteps))

\* C2: whenever isActive is false, no overlay and no callout element is
\* attached to the page, also right after endTutorial returns.
C2_InactiveNothingAttached ==
    ~isActive => (overlays = {} /\ callouts = {})

\* C3: with a catalog of N >= 1 steps whose targets are all present, one
\* start and Next pressed only after the previous step was shown: after k
\* presses, k <= N-1, the run is active at currentStep = k; the N-th press
\* calls completeTutorial; showStep is never entered with an index >= N.
C3_NextWalksToLastThenCompletes ==
    (AllTargetsPresent /\ nOverlays = 1) =>
        /\ \A k \in 1..Len(trace) :
              trace[k][1] = "showStep" => trace[k][2] < catalogLen
        /\ nextCalls <= catalogLen
        /\ nextCalls < catalogLen =>
              /\ isActive
              /\ ~Called("completeTutorial") /\ ~completed
              /\ NoPendingShow => currentStep = nextCalls
        /\ nextCalls = catalogLen =>
              /\ ~isActive /\ completed /\ notifyCount = 1
              /\ currentStep = catalogLen - 1
              /\ Entered("nextStep") => Called("completeTutorial")

C3_Witness ==
    /\ AllTargetsPresent /\ nOverlays = 1 /\ catalogLen = NumSteps
    /\ nextCalls = catalogLen /\ Called("completeTutorial")
    /\ calloutView[callout].cur = catalogLen

\* C4: every call of completeTutorial leaves sclera_tutorial_completed set,
\* has fired the completion request exactly once and leaves isActive false.
C4_CompleteEffects ==
    [][Called("completeTutorial")' =>
          /\ completed'
          /\ notifyCount' = notifyCount + 1
          /\ ~isActive']_vars

C4_Witness ==
    /\ Called("completeTutorial") /\ completed /\ notifyCount = 2 /\ ~isActive

\* C5: with the empty catalog (an account type other than student) no
\* overlay and no callout element is ever created.
C5_EmptyCatalogCreatesNothing ==
    accountType # "student" => (nOverlays = 0 /\ Len(calloutView) = 0)

\* C6: with the empty catalog the sequencer is never active: from the start
\* call to the ended state isActive is not true in any state.
C6_EmptyCatalogNeverActive ==
    accountType # "student" => ~isActive

\* C7: a step whose target is missing renders nothing and the sequencer
\* goes on from its index (the continuation for the next index is
\* scheduled, or the tutorial completes after the last index); a step that
\* is rendered displays its own index + 1 and the full catalog length.
MissingAt(i) ==
    /\ 0 <= i /\ i < Len(tutorialSteps)
    /\ tutorialSteps[i + 1] \notin present

Texts(view) == [c \in 1..Len(view) |-> <<view[c].cur, view[c].total>>]

C7_DisplayedTexts ==
    \A c \in 1..Len(calloutView) :
        calloutView[c].total # 0 =>
            /\ calloutView[c].total = catalogLen
            /\ calloutView[c].cur \in 1..catalogLen
            /\ calloutView[c].cur \in present

C7_SkipAndRender ==
    \A i \in 0..NumSteps :
        /\ (Shown(i) /\ Called("highlightElement")) =>
              /\ calloutView[callout].cur = i + 1
              /\ calloutView[callout].total = Len(tutorialSteps)
              /\ highlighted = {tutorialSteps[i + 1]}
        /\ (Shown(i) /\ MissingAt(i)) =>
              /\ ~Called("highlightElement")
              /\ currentStep = i
              /\ i < Len(tutorialSteps) - 1 =>
                    /\ timers # <<>>
                    /\ timers[Len(timers)] = [kind |-> "showNext", rem |-> FadeDelay,
                                               arg |-> 0, delay |-> FadeDelay]
              /\ i = Len(tutorialSteps) - 1 => Called("completeTutorial")

C7_MissingTargetSkipped ==
    /\ [](C7_DisplayedTexts /\ C7_SkipAndRender)
    /\ [][\A i \in 0..NumSteps :
            (Shown(i) /\ MissingAt(i))' =>
                /\ Texts(calloutView') = Texts(calloutView)
                /\ highlighted' \subseteq highlighted]_vars

\* the second step is missing: the third is on display with the full
\* length, the first was before
C7_Witness ==
    /\ present = (1..catalogLen) \ {2} /\ accountType = "student"
    /\ Shown(2) /\ Called("highlightElement")
    /\ calloutView[callout].cur = 3 /\ calloutView[callout].total = catalogLen

\* C8: previousStep at currentStep = 0 changes nothing: currentStep,
\* isActive, the three flags and the pending continuations stay as they are.
C8_PreviousAtZeroNoOp ==
    [][(Called("previousStep")' /\ currentStep = 0) =>
          UNCHANGED <<currentStep, isActive, visited, completed, skipped,
                      timers>>]_vars

C8_Witness ==
    /\ Called("previousStep") /\ currentStep = 0 /\ isActive /\ timers # <<>>

\* C9: endTutorial called while the sequencer is inactive changes nothing:
\* sequencer state, flags, rendered elements and scheduled continuations
\* are as before the call.
C9_EndWhenInactiveNoOp ==
    [][(Entered("endTutorial")' /\ ~isActive) => UNCHANGED observable]_vars

\* C10 as stated: after endTutorial or completeTutorial the sequencer is
\* inactive and its current index is -1.
C10_TerminalResetsIndex ==
    [][Called("endTutorial")' => (~isActive' /\ currentStep' = -1)]_vars

\* C10 amended: after endTutorial or completeTutorial the sequencer is
\* inactive and currentStep is not reset: it is the index the last showStep
\* of that step wrote, or else the index it was before.
LastWritten(tr, before) ==
    LET ks == {k \in 1..Len(tr) : tr[k][1] = "showStep" /\ tr[k][2] >= 0
                                   /\ tr[k][2] < Len(tutorialSteps)}
    IN IF ks = {} THEN before
       ELSE tr[CHOOSE k \in ks : \A j \in ks : j <= k][2]

C10_TerminalKeepsIndex ==
    [][Called("endTutorial")' =>
          /\ ~isActive'
          /\ currentStep' = LastWritten(trace', currentStep)
          /\ currentStep' >= 0]_vars

C10_Witness ==
    /\ Called("endTutorial") /\ ~isActive /\ currentStep = 2

\* the three localStorage flags
flags == <<visited, completed, skipped>>

\* C11 as stated: the flags are written only by terminal transitions;
\* skipTutorial sets skipped, while startTutorial, showStep, nextStep off
\* the last step, previousStep and endTutorial in mid-tutorial leave the
\* three flags unchanged.
C11_FlagsOnlyTerminal ==
    [][/\ flags' # flags =>
            (Called("skipTutorial")' \/ Called("completeTutorial")'
               \/ Called("endTutorial")')
       /\ Called("skipTutorial")' => skipped'
       /\ (\/ Entered("startTutorial")'
           \/ Called("showStep")'
           \/ Called("previousStep")'
           \/ (Entered("nextStep")' /\ currentStep < Len(tutorialSteps) - 1)
           \/ (Entered("endTutorial")' /\ isActive)) => flags' = flags]_vars

\* C11 amended: completeTutorial sets completed, skipTutorial sets skipped,
\* restartTutorial removes completed and skipped, init sets visited on a
\* first visit, and each leaves the other flags; every other step leaves
\* the three flags unchanged: startTutorial, previousStep, endTutorial in
\* mid-tutorial, nextStep off the last step, and showStep unless the target
\* of the last step is missing, where it calls completeTutorial.
C11_FlagWriters ==
    [][/\ Called("skipTutorial")' =>
            (skipped' /\ visited' = visited /\ completed' = completed)
       /\ Called("completeTutorial")' =>
            (completed' /\ visited' = visited /\ skipped' = skipped)
       /\ Called("restartTutorial")' =>
            (~completed' /\ ~skipped' /\ visited' = visited)
       /\ Called("constructor")' =>
            (completed' = completed /\ skipped' = skipped /\ (visited => visited'))
       /\ (/\ ~Called("skipTutorial")' /\ ~Called("completeTutorial")'
           /\ ~Called("restartTutorial")' /\ ~Called("constructor")')
            => flags' = flags
       /\ (Called("showStep")' /\ Called("completeTutorial")') =>
            \E i \in 0..NumSteps :
                Shown(i)' /\ MissingAt(i) /\ i = Len(tutorialSteps) - 1]_vars

\* the close button pressed while step 2 is on display: nothing recorded
C11_Witness ==
    /\ Entered("endTutorial") /\ currentStep = 1
    /\ calloutView[callout].cur = 2
    /\ ~completed /\ ~skipped

\* C12, on a page of a non-student account: restartTutorial called with the
\* completed flag set removes completed and skipped and then starts the
\* tutorial, and showWelcomeModal does not run while the restarted run is
\* active.
C12_RestartBypassesPrompt ==
    [][accountType # "student" =>
          /\ (Entered("restartTutorial")' /\ completed) =>
                /\ ~completed' /\ ~skipped'
                /\ trace'[2][1] = "startTutorial"
                /\ isActive' /\ forcedRun'
          /\ (forcedRun /\ isActive) => welcomeCount' = welcomeCount]_vars

\* the showWelcomeModal continuations still waiting to run
PendingWelcome == {i \in DOMAIN timers : timers[i].kind = "showWelcomeModal"}

\* C13: over page loads with or without tutorial=start, interleaved with
\* start, skip, complete, end and restart, the welcome prompt is shown at
\* most once: the number of showWelcomeModal runs so far plus the number
\* still scheduled never exceeds one.
C13_WelcomeAtMostOnce ==
    welcomeCount + Cardinality(PendingWelcome) <= 1

\* the prompt has been shown on an earlier page, and a later page loaded
\* without tutorial=start has scheduled nothing
C13_Witness ==
    /\ welcomeCount = 1 /\ loads >= 1 /\ listening
    /\ Entered("constructor") /\ timers = <<>>

\* style.top, style.left and data-position of this.callout
placed == IF callout = 0 THEN NotPlaced ELSE calloutView[callout].placed

\* the layout of the step the callout displays
shown == layout(State, calloutView[callout].cur)

\* the placement of side bottom before clamping, as twice the px values
RawLeft2 == 2 * shown.targetRect.left + shown.targetRect.width - shown.calloutRect.width
RawTop2 == 2 * (shown.targetRect.top + shown.targetRect.height + spacing)
MaxLeft2 == 2 * (shown.viewportWidth - shown.calloutRect.width - spacing)
MaxTop2 == 2 * (shown.viewportHeight - shown.calloutRect.height - spacing)
\* showStep has just placed the callout on side bottom: the page is as
\* positionCallout read it
BottomPlaced ==
    /\ placed # NotPlaced /\ shown.position = "bottom"
    /\ Called("showStep") /\ Called("highlightElement")

\* C14 as stated: for side bottom, top = targetBottom + 20 and the callout
\* is centred on the target when that fits, and otherwise
\* 20 <= left <= viewportWidth - calloutWidth - 20 and
\* 20 <= top <= viewportHeight - calloutHeight - 20.
C14_BottomAlwaysInside ==
    BottomPlaced =>
       IF 2 * spacing <= RawLeft2 /\ RawLeft2 <= MaxLeft2
          /\ 2 * spacing <= RawTop2 /\ RawTop2 <= MaxTop2
       THEN placed.top2 = RawTop2 /\ placed.left2 = RawLeft2
       ELSE /\ 2 * spacing <= placed.left2 /\ placed.left2 <= MaxLeft2
            /\ 2 * spacing <= placed.top2 /\ placed.top2 <= MaxTop2

\* C14, amended: for side bottom each coordinate is the unclamped one
\* (top = targetBottom + 20, left centred) when that lies in its range;
\* the range [20, viewport - callout - 20] is kept when it is not empty;
\* when the callout is larger than the viewport less 40 the coordinate is
\* viewport - callout - 20, below 20.
C14_BottomClamped ==
    BottomPlaced =>
       /\ (2 * spacing <= RawLeft2 /\ RawLeft2 <= MaxLeft2)
             => placed.left2 = RawLeft2
       /\ (2 * spacing <= RawTop2 /\ RawTop2 <= MaxTop2)
             => placed.top2 = RawTop2
       /\ 2 * spacing <= MaxLeft2
             => 2 * spacing <= placed.left2 /\ placed.left2 <= MaxLeft2
       /\ 2 * spacing <= MaxTop2
             => 2 * spacing <= placed.top2 /\ placed.top2 <= MaxTop2
       /\ MaxLeft2 < 2 * spacing => placed.left2 = MaxLeft2
       /\ MaxTop2 < 2 * spacing => placed.top2 = MaxTop2
       /\ placed.dataPosition = "bottom"

\* showStep(0) has placed a callout that fits the viewport, pushed back
\* from the right-hand edge and up from the bottom edge
C14_Witness ==
    /\ Shown(0) /\ Called("highlightElement")
    /\ BottomPlaced
    /\ 2 * spacing <= MaxLeft2 /\ RawLeft2 > MaxLeft2 /\ placed.left2 = MaxLeft2
    /\ 2 * spacing <= MaxTop2 /\ RawTop2 > MaxTop2 /\ placed.top2 = MaxTop2

\* the classes named in the class_ids of the owner of a result
ClassesOf(result) ==
    LET u == users[result.userId]
    IN IF u.exists /\ u.hasClassIds
       THEN {u.class_ids[i] : i \in DOMAIN u.class_ids}
       ELSE {}

\* the invocation h has left the stage it was suspended in
Resumed(h) == h \in inflight /\ h \notin inflight'

\* C15: one invocation of onResultCreated for a result with percentage p
\* adds 1 to total_assessments and p (0 when absent) to total_score_sum of
\* the summary of every class in the owner's class_ids and leaves every
\* other summary unchanged; with the user record missing or class_ids
\* absent or empty, no summary is written: the handler returns after the
\* read.
C15_OneInvocation ==
    [][\A h \in inflight :
          /\ (h.stage = "commit" /\ Resumed(h)) =>
                \A c \in ClassIds :
                   IF c \in ClassesOf(results[h.r])
                   THEN /\ summaries'[c].exists
                        /\ summaries'[c].total_assessments
                              = summaries[c].total_assessments + 1
                        /\ summaries'[c].total_score_sum
                              = summaries[c].total_score_sum
                                + PercentageOrZero(results[h.r])
                        /\ summaries'[c].last_updated > summaries[c].last_updated
                   ELSE summaries'[c] = summaries[c]
          /\ (h.stage = "get" /\ Resumed(h)) =>
                /\ summaries' = summaries
                /\ (ClassesOf(results[h.r]) = {}) <=> (inflight' = inflight \ {h})]_vars

\* the invocations for result n that have run to their end
Finished(n) ==
    invocations[n] - Cardinality({h \in inflight : h.r = n})

\* how often class c is listed in the class_ids of the owner of a result
Listed(c, result) ==
    LET u == users[result.userId]
    IN IF u.exists /\ u.hasClassIds
       THEN Cardinality({i \in DOMAIN u.class_ids : u.class_ids[i] = c})
       ELSE 0

RECURSIVE Others(_, _, _)
\* what the finished invocations for the results 1..n other than r have
\* added to the summary of class c
Others(c, n, r) ==
    IF n = 0
    THEN [count |-> 0, sum |-> 0]
    ELSE LET rest == Others(c, n - 1, r)
         IN IF n = r
            THEN rest
            ELSE [count |-> rest.count
                            + Finished(n) * Listed(c, results[n]),
                  sum |-> rest.sum
                          + Finished(n) * Listed(c, results[n])
                            * PercentageOrZero(results[n])]

\* the invocation h is a duplicate: an invocation for the same result has
\* run to its end before
Duplicate(h) == Finished(h.r) >= 1

\* C16: under at-least-once delivery a second invocation for the same
\* result increments the class summary again, as the handler does not
\* deduplicate: once the duplicate has finished, total_assessments of a
\* class of the owner is 2 higher and total_score_sum 2 * percentage higher
\* than before the first delivery (what the other results added apart),
\* and the commit of a duplicate adds what the commit of a first
\* invocation adds.
C16_DuplicateCountsTwice ==
    /\ [](\A r \in DOMAIN results : \A c \in ClassIds :
             (Finished(r) = 2 /\ Listed(c, results[r]) = 1) =>
                /\ summaries[c].total_assessments
                      = Others(c, Len(results), r).count + 2
                /\ summaries[c].total_score_sum
                      = Others(c, Len(results), r).sum
                        + 2 * PercentageOrZero(results[r]))
    /\ [][\A h \in inflight :
             (h.stage = "commit" /\ Resumed(h) /\ Duplicate(h)) =>
                \A c \in ClassIds :
                   /\ summaries'[c].total_assessments
                         = summaries[c].total_assessments
                           + Listed(c, results[h.r])
                   /\ summaries'[c].total_score_sum
                         = summaries[c].total_score_sum
                           + Listed(c, results[h.r])
                             * PercentageOrZero(results[h.r])]_vars

\* a result of 75 percent of a user of class c2 has been delivered twice,
\* and the duplicate has just been committed
C16_Witness ==
    /\ invocations = <<2>> /\ inflight = {}
    /\ results[1].hasPercentage /\ results[1].percentage = 75
    /\ Listed("c2", results[1]) = 1
    /\ summaries["c2"].total_assessments = 2
    /\ summaries["c2"].total_score_sum = 150
    /\ summaries["c2"].last_updated = 2

\* C17: at most one tutorial run exists at a time: for every sequence of
\* starts, restarts and ends at most one overlay and at most one callout
\* element is attached to the page.
C17_SingleRun ==
    /\ Cardinality(overlays) <= 1
    /\ Cardinality(callouts) <= 1

\* C18: completeTutorial fires the completion request with the completed
\* flag already stored and the sequencer inactive; a step in which a
\* request settles, accepted or rejected, changes neither the stored flags
\* nor isActive, fires no further request and schedules nothing; a
\* rejection only adds a console line.
C18_NotifierCannotUndo ==
    [][/\ \A i \in DOMAIN trace' :
             trace'[i][1] = "fetch" => trace'[i][2] = 1
       /\ Called("completeTutorial")' =>
             /\ completed' /\ ~isActive'
             /\ notifyCount' = notifyCount + 1
       /\ (pendingFetch' < pendingFetch /\ loads' = loads) =>
             /\ UNCHANGED <<visited, completed, skipped, isActive,
                            notifyCount, timers, currentStep>>
             /\ logged' \in {logged, logged + 1}
             /\ pendingFetch' = pendingFetch - 1]_vars

\* a completion whose request was rejected: one console line, the flag
\* still stored, nothing sent again
C18_Witness ==
    /\ Entered("catch")
    /\ logged = 1 /\ pendingFetch = 0 /\ notifyCount = 1
    /\ completed /\ ~isActive

\* C19: once endTutorial has run, no continuation still pending from an
\* earlier startTutorial, nextStep or previousStep shows a step: while the
\* sequencer stays inactive on the same page, currentStep does not change
\* and no page element carries the highlight.
C19_NoStepAfterEnd ==
    [][(~isActive /\ ~isActive' /\ loads' = loads /\ nOverlays >= 1) =>
          /\ currentStep' = currentStep
          /\ highlighted' = {}]_vars

\* C20: in a run driven only by Next presses, even with Next pressed again
\* while an earlier continuation is pending, showStep is never entered with
\* an index >= the catalog length, and the run never ends without the
\* completed flag stored.
C20_NextOnlyRunCompletes ==
    (accountType = "student" /\ loads = 0 /\ actions = nextCalls) =>
       /\ \A i \in DOMAIN trace :
             trace[i][1] = "showStep" => trace[i][2] < Len(tutorialSteps)
       /\ (nOverlays >= 1 /\ ~isActive) => completed

\* C21: previousStep never terminates the tutorial: whatever continuations
\* are pending, showStep is never entered with a negative index, and the
\* continuation of previousStep, showStep(currentStep - 1), leaves an
\* active sequencer active.
C21_PreviousNeverEnds ==
    [][/\ \A i \in DOMAIN trace' :
             trace'[i][1] = "showStep" => trace'[i][2] >= 0
       /\ (isActive /\ Entered("showStep")'
           /\ trace'[1][2] = currentStep - 1) => isActive']_vars

\* the targets of all steps from index i to the last one are missing
MissingFrom(i) ==
    /\ accountType = "student" /\ 0 <= i /\ i < catalogLen
    /\ \A j \in i..(catalogLen - 1) : (j + 1) \notin present

\* C22: when the targets of all steps from index i to the last are
\* missing, showStep(i) on an active sequencer leads, through the skips it
\* schedules and with no user action, to completeTutorial: the completed
\* flag is stored and the completion request sent; none of those steps is
\* ever highlighted.
C22_MissingTailCompletes ==
    /\ \A i \in 0..NumSteps :
          (Shown(i) /\ isActive /\ MissingFrom(i))
             ~> (completed /\ notifyCount >= 1 /\ ~isActive)
    /\ [](highlighted \subseteq present)

\* a catalog of two or more steps, none of whose targets exists, started
\* from the URL, has completed with no user action and nothing highlighted
C22_Witness ==
    /\ accountType = "student" /\ catalogLen >= 2 /\ present = {}
    /\ actions = 0 /\ Called("completeTutorial")
    /\ completed /\ notifyCount = 1 /\ ~isActive /\ highlighted = {}

\* C23: the removal continuations of endTutorial remove only the overlay
\* and callout of the run that ended: when a run is started before they
\* fire, its overlay and callout are attached to the page when its steps
\* are shown.
C23_NewRunKeepsElements ==
    (isActive /\ Called("showStep") /\ Called("highlightElement")) =>
       /\ overlay \in overlays
       /\ callout \in callouts
====
